---- MODULE Spec2Model ----
(***************************************************************************)
(* Temporary-email Telegram bot (src/bot.py): the recovery-token codec,    *)
(* the OTP extractor, the in-memory session store ACTIVE_SESSIONS and the  *)
(* four command handlers start, new_email, repair and read.                *)
(*                                                                         *)
(* Python strings are sequences of Unicode code points (naturals), bytes   *)
(* are sequences of naturals below 256.  Python objects are tagged         *)
(* records [t |-> type, v |-> payload].                                    *)
(***************************************************************************)
EXTENDS Integers, Sequences, FiniteSets, TLC

VARIABLES
    store,      \* ACTIVE_SESSIONS: user id -> stored object, or Absent
    last,       \* the last handler invocation: command, user, argument, trace
    handed,     \* the last recovery token new_email sent to the chat, the
                \* user it was sent to and the session stored for that user
    codec,      \* the codec tabulated on the sessions and tokens of the model
    rec,        \* codec harness: the session record under test
    tok,        \* codec harness: its recovery token
    dec,        \* codec harness: the decoded token
    text,       \* OTP harness: the message text
    otp         \* OTP harness: result of detect_otp

vars == <<store, last, handed, codec, rec, tok, dec, text, otp>>

\* ------------------------------------------------------------------------
\* Python objects
\* ------------------------------------------------------------------------
PyStr(s)   == [t |-> "str",   v |-> s]
PyInt(n)   == [t |-> "int",   v |-> n]
PyFloat(s) == [t |-> "float", v |-> s]
PyBool(b)  == [t |-> "bool",  v |-> b]
PyNone     == [t |-> "none",  v |-> <<>>]
PyList(xs) == [t |-> "list",  v |-> xs]
\* a dict is the sequence of its <<key, value>> pairs in insertion order
PyDict(ps) == [t |-> "dict",  v |-> ps]

\* the literals of the source, as code points
K_email    == <<101, 109, 97, 105, 108>>                  \* "email"
K_password == <<112, 97, 115, 115, 119, 111, 114, 100>>   \* "password"
K_token    == <<116, 111, 107, 101, 110>>                 \* "token"
RequiredKeys == <<K_email, K_password, K_token>>

DictHas(d, k) == \E i \in 1..Len(d.v) : d.v[i][1] = k
DictGet(d, k) == d.v[CHOOSE i \in 1..Len(d.v) : d.v[i][1] = k][2]
\* d[k] = x: an existing key keeps its place, a new one goes last
DictSet(ps, k, x) ==
    IF \E i \in 1..Len(ps) : ps[i][1] = k
    THEN [i \in 1..Len(ps) |-> IF ps[i][1] = k THEN <<k, x>> ELSE ps[i]]
    ELSE Append(ps, <<k, x>>)

\* ------------------------------------------------------------------------
\* Sequence helpers
\* ------------------------------------------------------------------------
Min(S) == CHOOSE x \in S : \A y \in S : x <= y
Max(S) == CHOOSE x \in S : \A y \in S : x >= y

\* "".join(ps[lo..hi])
RECURSIVE JoinRange(_, _, _)
JoinRange(ps, lo, hi) ==
    CASE lo > hi -> <<>>
      [] lo = hi -> ps[lo]
      [] OTHER   -> JoinRange(ps, lo, (lo + hi) \div 2)
                    \o JoinRange(ps, ((lo + hi) \div 2) + 1, hi)

Join(ps) == JoinRange(ps, 1, Len(ps))

\* the first position from i on whose item is not in the class, Len(s) + 1
\* when there is none
SkipWhile(s, i, In(_)) ==
    CHOOSE k \in i..(Len(s) + 1) :
        /\ k = Len(s) + 1 \/ ~In(s[k])
        /\ \A m \in i..(k - 1) : In(s[m])

\* ------------------------------------------------------------------------
\* str.encode() / bytes.decode(): UTF-8
\* ------------------------------------------------------------------------
Utf8Char(c) ==
    CASE c < 128   -> <<c>>
      [] c < 2048  -> <<192 + (c \div 64), 128 + (c % 64)>>
      [] c < 65536 -> <<224 + (c \div 4096), 128 + ((c \div 64) % 64),
                        128 + (c % 64)>>
      [] OTHER     -> <<240 + (c \div 262144), 128 + ((c \div 4096) % 64),
                        128 + ((c \div 64) % 64), 128 + (c % 64)>>

Utf8Encode(s) == Join([i \in 1..Len(s) |-> Utf8Char(s[i])])

IsCont(c) == c >= 128 /\ c < 192

\* the length of the sequence a lead byte announces, 0 for no lead byte
Utf8Width(c) ==
    CASE c < 128             -> 1
      [] c >= 194 /\ c < 224 -> 2
      [] c >= 224 /\ c < 240 -> 3
      [] c >= 240 /\ c < 245 -> 4
      [] OTHER               -> 0

\* the code point of the sequence of width w at b[i]
Utf8Point(b, i, w) ==
    CASE w = 1 -> b[i]
      [] w = 2 -> (b[i] - 192) * 64 + (b[i + 1] - 128)
      [] w = 3 -> (b[i] - 224) * 4096 + (b[i + 1] - 128) * 64 + (b[i + 2] - 128)
      [] OTHER -> (b[i] - 240) * 262144 + (b[i + 1] - 128) * 4096
                  + (b[i + 2] - 128) * 64 + (b[i + 3] - 128)

\* a well-formed sequence starts at b[i]: its continuation bytes follow, and
\* it is neither overlong nor a surrogate nor beyond U+10FFFF
Utf8WellFormed(b, i) ==
    LET w == Utf8Width(b[i]) IN
    /\ w > 0
    /\ i + w - 1 <= Len(b)
    /\ \A k \in 1..(w - 1) : IsCont(b[i + k])
    /\ (i + w > Len(b) \/ ~IsCont(b[i + w]))
    /\ LET u == Utf8Point(b, i, w) IN
       CASE w = 3 -> u >= 2048 /\ ~(u >= 55296 /\ u < 57344)
         [] w = 4 -> u >= 65536 /\ u <= 1114111
         [] OTHER -> TRUE

\* bytes.decode(): [ok, v]; ok = FALSE is UnicodeDecodeError
Utf8Decode(b) ==
    LET starts == SelectSeq([i \in 1..Len(b) |-> i], LAMBDA i : ~IsCont(b[i])) IN
    IF /\ (Len(b) > 0 => ~IsCont(b[1]))
       /\ \A k \in 1..Len(starts) : Utf8WellFormed(b, starts[k])
    THEN [ok |-> TRUE,
          v  |-> [k \in 1..Len(starts) |->
                     Utf8Point(b, starts[k], Utf8Width(b[starts[k]]))]]
    ELSE [ok |-> FALSE, v |-> <<>>]

\* ------------------------------------------------------------------------
\* base64.urlsafe_b64encode / base64.urlsafe_b64decode
\* ------------------------------------------------------------------------
PAD == 61   \* "="

\* the URL-safe alphabet: A-Z a-z 0-9 - _
B64Char(n) ==
    CASE n < 26 -> 65 + n
      [] n < 52 -> 97 + (n - 26)
      [] n < 62 -> 48 + (n - 52)
      [] n = 62 -> 45
      [] OTHER  -> 95

\* the value of a character, 64 for a character outside the alphabet.
\* urlsafe_b64decode translates - and _ to + and / and then decodes the
\* standard alphabet, so all four are accepted.
B64Val(c) ==
    CASE c >= 65 /\ c <= 90  -> c - 65
      [] c >= 97 /\ c <= 122 -> c - 97 + 26
      [] c >= 48 /\ c <= 57  -> c - 48 + 52
      [] c = 45 \/ c = 43    -> 62
      [] c = 95 \/ c = 47    -> 63
      [] OTHER               -> 64

\* the four characters of the group of up to three bytes b[i..]
B64Group(b, i) ==
    LET n == Len(b) - i + 1 IN
    CASE n = 1 -> <<B64Char(b[i] \div 4), B64Char((b[i] % 4) * 16), PAD, PAD>>
      [] n = 2 -> <<B64Char(b[i] \div 4),
                    B64Char((b[i] % 4) * 16 + (b[i + 1] \div 16)),
                    B64Char((b[i + 1] % 16) * 4), PAD>>
      [] OTHER -> <<B64Char(b[i] \div 4),
                    B64Char((b[i] % 4) * 16 + (b[i + 1] \div 16)),
                    B64Char((b[i + 1] % 16) * 4 + (b[i + 2] \div 64)),
                    B64Char(b[i + 2] % 64)>>

urlsafe_b64encode(b) ==
    Join([g \in 1..((Len(b) + 2) \div 3) |-> B64Group(b, 3 * g - 2)])

\* the byte a group of sextets q[i..] gives at offset k (0, 1, 2)
B64Byte(q, i, k) ==
    CASE k = 0 -> q[i] * 4 + (q[i + 1] \div 16)
      [] k = 1 -> (q[i + 1] % 16) * 16 + (q[i + 2] \div 4)
      [] OTHER -> (q[i + 2] % 4) * 64 + q[i + 3]

\* binascii.a2b_base64 in its default, non-strict mode: [ok, v], ok = FALSE
\* is binascii.Error.  Characters outside the alphabet are skipped.  A pad
\* ends the input when it completes the current group of four: at once with
\* three characters of the group read, as the second pad in a row with two.
\* Any other pad is skipped.  Input that ends inside a group is an error.
urlsafe_b64decode(b) ==
    LET s     == SelectSeq(b, LAMBDA c : c = PAD \/ B64Val(c) < 64)
        nData(i) == Len(SelectSeq(SubSeq(s, 1, i - 1), LAMBDA c : c # PAD))
        stops == {i \in 1..Len(s) :
                     /\ s[i] = PAD
                     /\ \/ nData(i) % 4 = 3
                        \/ nData(i) % 4 = 2 /\ i > 1 /\ s[i - 1] = PAD}
        end   == IF stops = {} THEN Len(s) + 1 ELSE Min(stops)
        data  == SelectSeq(SubSeq(s, 1, end - 1), LAMBDA c : c # PAD)
        q     == [i \in 1..Len(data) |-> B64Val(data[i])]
        n     == (Len(q) * 6) \div 8
    IN  IF stops = {} /\ Len(q) % 4 # 0
        THEN [ok |-> FALSE, v |-> <<>>]
        ELSE [ok |-> TRUE,
              v  |-> [k \in 1..n |->
                         B64Byte(q, 4 * ((k - 1) \div 3) + 1, (k - 1) % 3)]]

\* ------------------------------------------------------------------------
\* json.dumps (ensure_ascii, separators ", " and ": ")
\* ------------------------------------------------------------------------
HexChar(d) == IF d < 10 THEN 48 + d ELSE 87 + d

\* \uXXXX
UEscape(u) ==
    <<92, 117, HexChar(u \div 4096), HexChar((u \div 256) % 16),
      HexChar((u \div 16) % 16), HexChar(u % 16)>>

EscapeChar(c) ==
    CASE c = 34 -> <<92, 34>>
      [] c = 92 -> <<92, 92>>
      [] c = 10 -> <<92, 110>>
      [] c = 13 -> <<92, 114>>
      [] c = 9  -> <<92, 116>>
      [] c = 8  -> <<92, 98>>
      [] c = 12 -> <<92, 102>>
      [] c >= 32 /\ c <= 126 /\ c # 34 /\ c # 92 -> <<c>>
      [] (c < 32 \/ c > 126) /\ c < 65536 /\ c \notin {8, 9, 10, 12, 13}
                -> UEscape(c)
      [] OTHER  -> UEscape(55296 + ((c - 65536) \div 1024))
                   \o UEscape(56320 + ((c - 65536) % 1024))

\* a string written between quotes with no escaping
DumpStrRaw(s) == <<34>> \o s \o <<34>>

DumpStr(s) == <<34>> \o Join([i \in 1..Len(s) |-> EscapeChar(s[i])]) \o <<34>>

RECURSIVE Digits(_)
Digits(n) == IF n < 10 THEN <<48 + n>> ELSE Append(Digits(n \div 10), 48 + (n % 10))

DumpInt(n) == IF n < 0 THEN <<45>> \o Digits(0 - n) ELSE Digits(n)

RECURSIVE json_dumps(_)
\* item i of a list (isDict = FALSE) or of a dict, with its ", " separator
DumpItem(xs, i, isDict) ==
    (IF i > 1 THEN <<44, 32>> ELSE <<>>)
    \o (IF isDict
        THEN DumpStr(xs[i][1]) \o <<58, 32>> \o json_dumps(xs[i][2])
        ELSE json_dumps(xs[i]))

json_dumps(x) ==
    CASE x.t = "str"   -> DumpStr(x.v)
      [] x.t = "int"   -> DumpInt(x.v)
      [] x.t = "float" -> x.v
      [] x.t = "bool"  -> IF x.v THEN <<116, 114, 117, 101>>
                          ELSE <<102, 97, 108, 115, 101>>
      [] x.t = "none"  -> <<110, 117, 108, 108>>
      [] x.t = "list"  -> <<91>>
                          \o Join([i \in 1..Len(x.v) |-> DumpItem(x.v, i, FALSE)])
                          \o <<93>>
      [] x.t = "dict"  -> <<123>>
                          \o Join([i \in 1..Len(x.v) |-> DumpItem(x.v, i, TRUE)])
                          \o <<125>>

\* ------------------------------------------------------------------------
\* json.loads: [ok, v, i], i the position after the value; ok = FALSE is
\* json.JSONDecodeError.  NaN and Infinity are outside the modelled fragment.
\* ------------------------------------------------------------------------
JFail == [ok |-> FALSE, v |-> PyNone, i |-> 0]
JOk(x, i) == [ok |-> TRUE, v |-> x, i |-> i]

IsWs(c) == c = 32 \/ c = 9 \/ c = 10 \/ c = 13
IsDecimal(c) == c >= 48 /\ c <= 57
\* a character a string chunk runs over: no quote, backslash or control
IsPlain(c) == c # 34 /\ c # 92 /\ c >= 32

SkipWs(s, i) == SkipWhile(s, i, IsWs)
SkipDigits(s, i) == SkipWhile(s, i, IsDecimal)

HexVal(c) ==
    CASE c >= 48 /\ c <= 57  -> c - 48
      [] c >= 97 /\ c <= 102 -> c - 87
      [] c >= 65 /\ c <= 70  -> c - 55
      [] OTHER               -> 16

\* four hex digits at s[i..i+3]
HexOk(s, i) == i + 3 <= Len(s) /\ \A k \in 0..3 : HexVal(s[i + k]) < 16
Hex4Val(s, i) ==
    HexVal(s[i]) * 4096 + HexVal(s[i + 1]) * 256
    + HexVal(s[i + 2]) * 16 + HexVal(s[i + 3])

\* BACKSLASH: the character an escape stands for, 0 for no escape
SimpleEscape(e) ==
    CASE e = 34  -> 34
      [] e = 92  -> 92
      [] e = 47  -> 47
      [] e = 98  -> 8
      [] e = 102 -> 12
      [] e = 110 -> 10
      [] e = 114 -> 13
      [] e = 116 -> 9
      [] OTHER   -> 0

\* the escape at s[i] = "\": [ok, c, i], c the character, i the position
\* after it.  A high surrogate followed by an escaped low one is one character.
ScanEscape(s, i) ==
    CASE i + 1 > Len(s) -> [ok |-> FALSE, c |-> 0, i |-> 0]
      [] i + 1 <= Len(s) /\ s[i + 1] # 117 ->
            [ok |-> SimpleEscape(s[i + 1]) # 0,
             c  |-> SimpleEscape(s[i + 1]), i |-> i + 2]
      [] OTHER ->
            IF ~HexOk(s, i + 2) THEN [ok |-> FALSE, c |-> 0, i |-> 0]
            ELSE LET u == Hex4Val(s, i + 2) IN
                 IF u >= 55296 /\ u <= 56319 /\ i + 7 <= Len(s)
                    /\ s[i + 6] = 92 /\ s[i + 7] = 117
                 THEN IF ~HexOk(s, i + 8) THEN [ok |-> FALSE, c |-> 0, i |-> 0]
                      ELSE LET u2 == Hex4Val(s, i + 8) IN
                           IF u2 >= 56320 /\ u2 <= 57343
                           THEN [ok |-> TRUE,
                                 c  |-> 65536 + (u - 55296) * 1024 + (u2 - 56320),
                                 i  |-> i + 12]
                           ELSE [ok |-> TRUE, c |-> u, i |-> i + 6]
                 ELSE [ok |-> TRUE, c |-> u, i |-> i + 6]

\* scanstring (strict), chunk by chunk: i is the position after the opening
\* quote or after the last escape, acc the characters so far
RECURSIVE ScanString(_, _, _)
ScanString(s, i, acc) ==
    LET j     == SkipWhile(s, i, IsPlain)
        chunk == SubSeq(s, i, j - 1)
    IN  CASE j > Len(s) -> JFail
          [] j <= Len(s) /\ s[j] = 34 -> JOk(PyStr(acc \o chunk), j + 1)
          [] j <= Len(s) /\ s[j] < 32 -> JFail
          [] OTHER ->
                LET e == ScanEscape(s, j) IN
                IF e.ok THEN ScanString(s, e.i, acc \o chunk \o <<e.c>>)
                ELSE JFail

RECURSIVE DigitsVal(_, _, _)
DigitsVal(s, i, j) ==
    IF j < i THEN 0 ELSE DigitsVal(s, i, j - 1) * 10 + (s[j] - 48)

\* NUMBER_RE: (-?(?:0|[1-9]\d*))(\.\d+)?([eE][-+]?\d+)?
ScanNumber(s, i) ==
    LET neg == s[i] = 45
        d   == IF neg THEN i + 1 ELSE i
    IN IF d > Len(s) \/ ~IsDecimal(s[d]) THEN JFail
       ELSE LET e1 == IF s[d] = 48 THEN d + 1 ELSE SkipDigits(s, d)
                e2 == IF e1 + 1 <= Len(s) /\ s[e1] = 46 /\ IsDecimal(s[e1 + 1])
                      THEN SkipDigits(s, e1 + 1) ELSE e1
                x  == IF e2 <= Len(s) /\ (s[e2] = 101 \/ s[e2] = 69)
                      THEN (IF e2 + 1 <= Len(s) /\ (s[e2 + 1] = 45 \/ s[e2 + 1] = 43)
                            THEN e2 + 2 ELSE e2 + 1)
                      ELSE 0
                e3 == IF x > 0 /\ x <= Len(s) /\ IsDecimal(s[x])
                      THEN SkipDigits(s, x) ELSE e2
            IN IF e3 = e1
               THEN JOk(PyInt(IF neg THEN 0 - DigitsVal(s, d, e1 - 1)
                              ELSE DigitsVal(s, d, e1 - 1)), e1)
               ELSE JOk(PyFloat(SubSeq(s, i, e3 - 1)), e3)

Matches(s, i, w) ==
    i + Len(w) - 1 <= Len(s) /\ SubSeq(s, i, i + Len(w) - 1) = w

RECURSIVE ScanValue(_, _)
RECURSIVE ScanArray(_, _, _)
RECURSIVE ScanObject(_, _, _)

\* JSONArray after "[" and the items in acc: i is at the next item
ScanArray(s, i, acc) ==
    LET r == ScanValue(s, i)
        j == SkipWs(s, r.i)
    IN  CASE ~r.ok -> JFail
          [] r.ok /\ j > Len(s) -> JFail
          [] r.ok /\ j <= Len(s) /\ s[j] = 93 ->
                JOk(PyList(Append(acc, r.v)), j + 1)
          [] r.ok /\ j <= Len(s) /\ s[j] = 44 ->
                ScanArray(s, SkipWs(s, j + 1), Append(acc, r.v))
          [] OTHER -> JFail

\* JSONObject after "{" and the pairs in acc: i is at the next key's quote
ScanObject(s, i, acc) ==
    IF i > Len(s) \/ s[i] # 34 THEN JFail
    ELSE LET k    == ScanString(s, i + 1, <<>>)
             c    == SkipWs(s, k.i)
             r    == ScanValue(s, SkipWs(s, c + 1))
             j    == SkipWs(s, r.i)
             acc2 == DictSet(acc, k.v.v, r.v)
         IN  CASE ~k.ok -> JFail
               [] k.ok /\ (c > Len(s) \/ s[c] # 58) -> JFail
               [] k.ok /\ c <= Len(s) /\ s[c] = 58 /\ ~r.ok -> JFail
               [] k.ok /\ c <= Len(s) /\ s[c] = 58 /\ r.ok /\ j > Len(s) -> JFail
               [] k.ok /\ c <= Len(s) /\ s[c] = 58 /\ r.ok /\ j <= Len(s)
                  /\ s[j] = 125 -> JOk(PyDict(acc2), j + 1)
               [] k.ok /\ c <= Len(s) /\ s[c] = 58 /\ r.ok /\ j <= Len(s)
                  /\ s[j] = 44 -> ScanObject(s, SkipWs(s, j + 1), acc2)
               [] OTHER -> JFail

\* scan_once
ScanValue(s, i) ==
    IF i > Len(s) THEN JFail
    ELSE LET c == s[i]
             j == SkipWs(s, i + 1)
         IN  CASE c = 34 -> ScanString(s, i + 1, <<>>)
               [] c = 123 -> IF j <= Len(s) /\ s[j] = 125
                             THEN JOk(PyDict(<<>>), j + 1)
                             ELSE ScanObject(s, j, <<>>)
               [] c = 91  -> IF j <= Len(s) /\ s[j] = 93
                             THEN JOk(PyList(<<>>), j + 1)
                             ELSE ScanArray(s, j, <<>>)
               [] c = 110 -> IF Matches(s, i, <<110, 117, 108, 108>>)
                             THEN JOk(PyNone, i + 4) ELSE JFail
               [] c = 116 -> IF Matches(s, i, <<116, 114, 117, 101>>)
                             THEN JOk(PyBool(TRUE), i + 4) ELSE JFail
               [] c = 102 -> IF Matches(s, i, <<102, 97, 108, 115, 101>>)
                             THEN JOk(PyBool(FALSE), i + 5) ELSE JFail
               [] c = 45 \/ IsDecimal(c) -> ScanNumber(s, i)
               [] OTHER -> JFail

\* [ok, v]: the whole text is one value between optional whitespace
json_loads(s) ==
    LET r == ScanValue(s, SkipWs(s, 1)) IN
    IF r.ok /\ SkipWs(s, r.i) = Len(s) + 1
    THEN [ok |-> TRUE, v |-> r.v]
    ELSE [ok |-> FALSE, v |-> PyNone]

\* ------------------------------------------------------------------------
\* The recovery-token codec
\* ------------------------------------------------------------------------
\* encode_recovery_token with the "=" padding dropped from the token
encode_unpadded(data) ==
    SelectSeq(Utf8Decode(urlsafe_b64encode(Utf8Encode(json_dumps(data)))).v,
              LAMBDA c : c # PAD)

\* encode_recovery_token(data): the token string
encode_recovery_token(data) ==
    LET raw == Utf8Encode(json_dumps(data))
    IN  Utf8Decode(urlsafe_b64encode(raw)).v

\* decode_recovery_token(token): [ok, v]; ok = FALSE is the exception it
\* raises (binascii.Error, UnicodeDecodeError or json.JSONDecodeError)
decode_recovery_token(token) ==
    LET raw == urlsafe_b64decode(Utf8Encode(token)) IN
    IF ~raw.ok THEN [ok |-> FALSE, v |-> PyNone]
    ELSE LET txt == Utf8Decode(raw.v) IN
         IF ~txt.ok THEN [ok |-> FALSE, v |-> PyNone]
         ELSE json_loads(txt.v)

Unset == [t |-> "unset", v |-> <<>>]

\* ------------------------------------------------------------------------
\* OTP_REGEX = re.compile(r"\b\d{4,8}\b") and detect_otp
\* ------------------------------------------------------------------------
OTP_MIN == 4
OTP_MAX == 8

\* \d and \w of a str pattern, for code points below 256
IsDigit(c) == c >= 48 /\ c <= 57
IsWord(c) ==
    \/ c >= 48 /\ c <= 57
    \/ c >= 65 /\ c <= 90
    \/ c = 95
    \/ c >= 97 /\ c <= 122
    \/ c \in {170, 178, 179, 181, 185, 186, 188, 189, 190}
    \/ c >= 192 /\ c <= 255 /\ c # 215 /\ c # 247

\* \b that takes any two different neighbours for a boundary
AtBoundaryDigit(s, i) ==
    (i > 1 /\ IsDigit(s[i - 1])) # (i <= Len(s) /\ IsDigit(s[i]))

\* \b before position i: exactly one of s[i - 1], s[i] is a word character
AtBoundary(s, i) ==
    (i > 1 /\ IsWord(s[i - 1])) # (i <= Len(s) /\ IsWord(s[i]))

\* the lengths k with which the pattern matches at position i
MatchLengths(s, i) ==
    {k \in OTP_MIN..OTP_MAX :
        /\ AtBoundary(s, i)
        /\ i + k - 1 <= Len(s)
        /\ \A j \in i..(i + k - 1) : IsDigit(s[j])
        /\ AtBoundary(s, i + k)}

\* OTP_REGEX.search(text): the leftmost position with a match, and there
\* the longest match (the quantifier is greedy); None without a match
OTP_REGEX_search(s) ==
    LET starts == {i \in 1..Len(s) : MatchLengths(s, i) # {}} IN
    IF starts = {} THEN PyNone
    ELSE LET i == Min(starts)
             k == Max(MatchLengths(s, i))
         IN  PyStr(SubSeq(s, i, i + k - 1))

detect_otp(t) ==
    IF t = <<>> THEN PyNone ELSE OTP_REGEX_search(t)

\* ------------------------------------------------------------------------
\* Codec harness: a session record is encoded, the token is decoded
\* ------------------------------------------------------------------------
MaxPieces == 2
LongLen == 12

\* what a field is made of: a quote, a backslash, a newline, a non-ASCII
\* letter, a character beyond the BMP, and a long run of letters
CodecPieces ==
    {<<34>>, <<92>>, <<10>>, <<233>>, <<128512>>, [i \in 1..LongLen |-> 122]}

RECURSIVE PieceStrings(_)
\* the strings of exactly n pieces
PieceStrings(n) ==
    IF n = 0 THEN {<<>>}
    ELSE {p \o r : p \in CodecPieces, r \in PieceStrings(n - 1)}

\* session records whose three fields hold MaxPieces pieces at most together
CodecRecords ==
    {PyDict(<< <<K_email, PyStr(e)>>, <<K_password, PyStr(p)>>,
               <<K_token, PyStr(j)>> >>) :
        <<e, p, j>> \in UNION {PieceStrings(a) \X PieceStrings(b) \X PieceStrings(c) :
                              <<a, b, c>> \in {x \in (0..MaxPieces) \X (0..MaxPieces)
                                                  \X (0..MaxPieces) :
                                               x[1] + x[2] + x[3] <= MaxPieces}}}

Idle == /\ store = <<>> /\ last = <<>> /\ handed = <<>> /\ codec = <<>>

CodecInit ==
    /\ Idle
    /\ rec \in CodecRecords
    /\ tok = Unset /\ dec = Unset
    /\ text = <<>> /\ otp = Unset

CodecEncode ==
    /\ tok = Unset
    /\ tok' = PyStr(encode_recovery_token(rec))
    /\ UNCHANGED <<store, last, handed, codec, rec, dec, text, otp>>

CodecDecode ==
    /\ tok # Unset /\ dec = Unset
    /\ dec' = decode_recovery_token(tok.v)
    /\ UNCHANGED <<store, last, handed, codec, rec, tok, text, otp>>

CodecNext == CodecEncode \/ CodecDecode

SpecCodec == CodecInit /\ [][CodecNext]_vars

\* ------------------------------------------------------------------------
\* OTP harness: detect_otp is applied to a message text
\* ------------------------------------------------------------------------
MaxChunks == 4

\* a text is made of digit runs and single characters: a space, a letter,
\* an underscore.  A run of k digits repeats the digit k.
OtpChunks ==
    {[i \in 1..k |-> 48 + k] : k \in {3, 4, 8, 9}} \cup {<<32>>, <<97>>, <<95>>}

RECURSIVE ChunkTexts(_)
ChunkTexts(n) ==
    IF n = 0 THEN {<<>>}
    ELSE ChunkTexts(n - 1)
         \cup {c \o r : c \in OtpChunks, r \in ChunkTexts(n - 1)}

OtpInit ==
    /\ Idle
    /\ rec = Unset /\ tok = Unset /\ dec = Unset
    /\ text \in ChunkTexts(MaxChunks)
    /\ otp = Unset

OtpDetect ==
    /\ otp = Unset
    /\ otp' = detect_otp(text)
    /\ UNCHANGED <<store, last, handed, codec, rec, tok, dec, text>>

OtpNext == OtpDetect

SpecOtp == OtpInit /\ [][OtpNext]_vars

\* ------------------------------------------------------------------------
\* The bot: session store, provider calls, replies
\* ------------------------------------------------------------------------
Users == {123, 456}

\* a user id that is no key of ACTIVE_SESSIONS
Absent == [t |-> "absent", v |-> <<>>]

\* ACTIVE_SESSIONS.get(user_id)
ACTIVE_SESSIONS_get(S, u) == IF S[u] = Absent THEN PyNone ELSE S[u]

\* bool(x)
Truthy(x) ==
    CASE x.t = "none"                   -> FALSE
      [] x.t \in {"str", "list", "dict"} -> Len(x.v) > 0
      [] x.t = "int"                    -> x.v # 0
      [] x.t = "bool"                   -> x.v
      [] OTHER                          -> TRUE

IsSubstring(k, s) ==
    \E i \in 1..(Len(s) - Len(k) + 1) : SubSeq(s, i, i + Len(k) - 1) = k

\* k in data: [ok, v]; ok = FALSE is TypeError (data is no container)
Contains(data, k) ==
    CASE data.t = "dict" -> [ok |-> TRUE, v |-> DictHas(data, k)]
      [] data.t = "list" ->
            [ok |-> TRUE,
             v  |-> \E i \in 1..Len(data.v) :
                        data.v[i].t = "str" /\ data.v[i].v = k]
      [] data.t = "str"  -> [ok |-> TRUE, v |-> IsSubstring(k, data.v)]
      [] OTHER           -> [ok |-> FALSE, v |-> FALSE]

\* all(k in data for k in ("email", "password", "token")): [ok, v]
HasAllKeys(data) ==
    [ok |-> Contains(data, K_email).ok,
     v  |-> \A i \in 1..Len(RequiredKeys) : Contains(data, RequiredKeys[i]).v]

\* data[k] for a str k: [ok, v]; ok = FALSE is KeyError or TypeError
Subscript(data, k) ==
    IF data.t = "dict" /\ DictHas(data, k)
    THEN [ok |-> TRUE, v |-> DictGet(data, k)]
    ELSE [ok |-> FALSE, v |-> PyNone]

\* d.get(k, default) of a dict
DictGetDefault(d, k, default) == IF DictHas(d, k) THEN DictGet(d, k) ELSE default

\* telegram.helpers.escape_markdown(text, version=1): _ * ` [ get a backslash
escape_markdown(s) ==
    Join([i \in 1..Len(s) |->
             IF s[i] \in {95, 42, 96, 91} THEN <<92, s[i]>> ELSE <<s[i]>>])

\* the events of a handler invocation, in order: provider calls and replies
Call(op, id, ok) == [e |-> "call", op |-> op, id |-> id, ok |-> ok]
\* reply_text: id is the message the reply relays (0: none), delivered is
\* whether the chat transport accepted it
Reply(txt, mode, id, delivered, fields) ==
    [e |-> "reply", text |-> txt, parse_mode |-> mode, id |-> id,
     delivered |-> delivered, fields |-> fields]
Plain(txt) == Reply(txt, "None", 0, TRUE, <<>>)

T_HELP         == "Temporary Email Bot"
T_CREATING     == "Creating temporary email..."
T_NO_DOMAINS   == "No domains available. Try again later."
T_CREATED      == "Temp Email Created"
T_CREATE_ERROR == "An error occurred while creating email."
T_USAGE        == "Usage: /repair <recovery_token>"
T_RECOVERED    == "Inbox recovered successfully"
T_INVALID      == "Invalid recovery token."
T_NO_INBOX     == "No active inbox.\nUse /new or /repair <token>."
T_NO_NEW       == "No new emails."
T_RELAY        == "From: {from_addr} Subject: {subject} Message: {body}{otp_line}"
T_FALLBACK     == "From: {from_addr} (Content could not be displayed)"

\* what a handler leaves: the store, its events, and whether an exception
\* escaped it
Outcome(S, trace, raised) == [store |-> S, trace |-> trace, raised |-> raised]

\* ------------------------------------------------------------------------
\* start
\* ------------------------------------------------------------------------
start(S, u) == Outcome(S, <<Reply(T_HELP, "Markdown", 0, TRUE, <<>>)>>, FALSE)

\* ------------------------------------------------------------------------
\* new_email
\* ------------------------------------------------------------------------
\* string.ascii_lowercase + string.digits
Alphabet ==
    <<97, 98, 99, 100, 101, 102, 103, 104, 105, 106, 107, 108, 109, 110, 111,
      112, 113, 114, 115, 116, 117, 118, 119, 120, 121, 122,
      48, 49, 50, 51, 52, 53, 54, 55, 56, 57>>

\* the states the random generator may be in when new_email runs
Seeds == {3, 16}

\* random_string(length) from generator state seed: length characters of the
\* alphabet
random_string(seed, length) ==
    [i \in 1..length |-> Alphabet[((seed * (i + length) + i * i) % Len(Alphabet)) + 1]]

Domain   == <<101, 120, 97, 109, 112, 108, 101, 46, 99, 111, 109>>  \* example.com
JwtToken == <<106, 119, 116, 95, 116, 111, 107, 101, 110>>          \* jwt_token

\* what get_domains returns: RequestException, no domain, one domain
DomainResponses ==
    {[ok |-> FALSE, v |-> <<>>], [ok |-> TRUE, v |-> <<>>],
     [ok |-> TRUE, v |-> <<Domain>>]}
\* what get_token returns: RequestException or the token
TokenResponses == {[ok |-> FALSE, v |-> <<>>], [ok |-> TRUE, v |-> JwtToken]}

Session(email, password, jwt_token) ==
    PyDict(<< <<K_email, PyStr(email)>>, <<K_password, PyStr(password)>>,
              <<K_token, PyStr(jwt_token)>> >>)

\* the sessions new_email can build
NewSessions ==
    {Session(random_string(seed, 8) \o <<64>> \o Domain,
             random_string(seed, 12), JwtToken) : seed \in Seeds}

\* encode_recovery_token(data), looked up in the table of the state
encode_tabulated(data) == codec.tokens[data]

\* seed: the state of the random generator; domains, created, jwt: what
\* get_domains, create_account and get_token answer
new_email(S, u, seed, domains, created, jwt) ==
    LET t1      == <<Plain(T_CREATING), Call("get_domains", 0, domains.ok)>>
        failed  == Plain(T_CREATE_ERROR)
        \* random.choice(domains)
        email   == random_string(seed, 8) \o <<64>> \o domains.v[1]
        password == random_string(seed, 12)
        t2      == Append(t1, Call("create_account", 0, created))
        t3      == Append(t2, Call("get_token", 0, jwt.ok))
        session == Session(email, password, jwt.v)
    IN  CASE ~domains.ok -> Outcome(S, Append(t1, failed), FALSE)
          [] domains.ok /\ domains.v = <<>> ->
                Outcome(S, Append(t1, Plain(T_NO_DOMAINS)), FALSE)
          [] domains.ok /\ domains.v # <<>> /\ ~created ->
                Outcome(S, Append(t2, failed), FALSE)
          [] domains.ok /\ domains.v # <<>> /\ created /\ ~jwt.ok ->
                Outcome(S, Append(t3, failed), FALSE)
          [] OTHER ->
                Outcome([S EXCEPT ![u] = session],
                        Append(t3, Reply(T_CREATED, "Markdown", 0, TRUE,
                                         [email |-> email,
                                          recovery_token |->
                                              encode_tabulated(session)])),
                        FALSE)

\* ------------------------------------------------------------------------
\* repair
\* ------------------------------------------------------------------------
\* what a user may type after /repair, besides the tokens new_email hands
\* out: text that is no base64, base64 of bytes that are no UTF-8, of text
\* that is no JSON, and of JSON values of every shape
CraftedTokens ==
    {<<110, 111, 116, 32, 98, 97, 115, 101, 54, 52, 32, 111, 114, 32, 106,
       115, 111, 110>>,                                      \* not base64 or json
     <<95, 95, 52, 61>>,                                     \* bytes ff fe
     <<97, 71, 86, 115, 98, 71, 56, 61>>,                    \* hello
     encode_recovery_token(PyDict(<< <<K_email, PyStr(<<97>>)>> >>)),
     encode_recovery_token(PyInt(5)),
     encode_recovery_token(PyNone),
     encode_recovery_token(PyList(<<PyStr(K_email), PyStr(K_password),
                                    PyStr(K_token)>>)),
     encode_recovery_token(PyStr(K_email \o <<32>> \o K_password \o <<32>>
                                 \o K_token)),
     encode_recovery_token(Session(<<>>, <<>>, <<>>))}

\* the codec on the sessions new_email builds and on the tokens a user may
\* type: the crafted ones and the ones new_email hands out
CodecTable ==
    LET tokens == [s \in NewSessions |-> encode_recovery_token(s)]
        args   == CraftedTokens \cup {tokens[s] : s \in NewSessions}
    IN  [tokens |-> tokens, decoded |-> [t \in args |-> decode_recovery_token(t)]]

\* decode_recovery_token(token), looked up in the table of the state
decode_tabulated(token) == codec.decoded[token]

rejected(S) == Outcome(S, <<Plain(T_INVALID)>>, FALSE)

\* repair that keeps the session it already has
repair_keeping(S, u, args) ==
    IF args = <<>> THEN Outcome(S, <<Plain(T_USAGE)>>, FALSE)
    ELSE LET data == decode_tabulated(args[1]) IN
         IF data.ok /\ data.v.t = "dict"
            /\ \A i \in 1..3 : DictHas(data.v, RequiredKeys[i])
         THEN Outcome(IF S[u] = Absent THEN [S EXCEPT ![u] = data.v] ELSE S,
                      <<Reply(T_RECOVERED, "Markdown", 0, TRUE,
                              [email |-> DictGet(data.v, K_email)])>>, FALSE)
         ELSE rejected(S)

repair(S, u, args) ==
    IF args = <<>> THEN Outcome(S, <<Plain(T_USAGE)>>, FALSE)
    ELSE LET data   == decode_tabulated(args[1])
             has    == HasAllKeys(data.v)
             stored == [S EXCEPT ![u] = data.v]
             email  == Subscript(data.v, K_email)
         IN  CASE ~data.ok -> rejected(S)                  \* decoding raised
               [] data.ok /\ ~has.ok -> rejected(S)        \* TypeError
               [] data.ok /\ has.ok /\ ~has.v -> rejected(S)   \* ValueError
               \* stored, then data['email'] raised TypeError
               [] data.ok /\ has.ok /\ has.v /\ ~email.ok -> rejected(stored)
               [] OTHER ->
                     Outcome(stored,
                             <<Reply(T_RECOVERED, "Markdown", 0, TRUE,
                                     [email |-> email.v])>>, FALSE)

\* ------------------------------------------------------------------------
\* read
\* ------------------------------------------------------------------------
READ_LIMIT == 5
BODY_LIMIT == 2000

K_from    == <<102, 114, 111, 109>>                    \* "from"
K_address == <<97, 100, 100, 114, 101, 115, 115>>     \* "address"
K_subject == <<115, 117, 98, 106, 101, 99, 116>>      \* "subject"
K_text    == <<116, 101, 120, 116>>                    \* "text"

\* what read_message returns for message id: three kinds of message
FullMessage(id) ==
    CASE id % 3 = 1 ->
            PyDict(<< <<K_from, PyDict(<< <<K_address,
                          PyStr(<<115, 101, 110, 100, 101, 114>>)>> >>)>>,  \* sender
                      <<K_subject, PyStr(<<72, 105>>)>>,                    \* Hi
                      <<K_text, PyStr(<<89, 111, 117, 114, 32, 79, 84, 80, 32,
                                        105, 115, 32, 49, 50, 51, 52>>)>> >>)
                                                            \* Your OTP is 1234
      [] id % 3 = 2 ->
            PyDict(<< <<K_from, PyDict(<< <<K_address,
                          PyStr(<<115, 104, 111, 112, 64, 109, 97, 105, 108,
                                  46, 105, 111>>)>> >>)>>,           \* shop@mail.io
                      <<K_subject, PyStr(<<83, 97, 108, 101, 32, 42, 110, 111,
                                           119, 42, 32, 91, 53, 48, 37, 93>>)>>,
                                                            \* Sale *now* [50%]
                      <<K_text, PyStr(<<>>)>> >>)
      [] OTHER ->
            PyDict(<< <<K_text, PyStr(<<99, 111, 100, 101, 95, 49, 50, 51, 52,
                                        53, 54, 95, 120>>)>> >>)   \* code_123456_x

NoTextContent == <<78, 111, 32, 116, 101, 120, 116, 32, 99, 111, 110, 116, 101,
                   110, 116>>
Truncated     == <<46, 46, 46, 32, 40, 116, 114, 117, 110, 99, 97, 116, 101,
                   100, 41>>
Unknown       == <<85, 110, 107, 110, 111, 119, 110>>
NoSubject     == <<78, 111, 32, 83, 117, 98, 106, 101, 99, 116>>

\* the fields of the formatted reply for a message read_message returned
RelayFields(full) ==
    LET txt  == DictGetDefault(full, K_text, PyStr(<<>>))
        body == IF Truthy(txt) THEN txt.v ELSE NoTextContent
        cut  == IF Len(body) > BODY_LIMIT
                THEN SubSeq(body, 1, BODY_LIMIT) \o Truncated ELSE body
    IN  [from_addr |-> escape_markdown(
                           DictGetDefault(DictGetDefault(full, K_from, PyDict(<<>>)),
                                          K_address, PyStr(Unknown)).v),
         subject   |-> escape_markdown(
                           DictGetDefault(full, K_subject, PyStr(NoSubject)).v),
         body      |-> escape_markdown(cut),
         otp       |-> detect_otp(body)]

\* the fields of the plain reply sent when the formatted one is refused
FallbackFields(full) ==
    [from_addr |-> DictGetDefault(DictGetDefault(full, K_from, PyDict(<<>>)),
                                  K_address, PyNone)]

\* a listing entry: the message id (has_id = FALSE: the entry has no "id"
\* key) and what the provider and the chat transport answer for it
Entry(id, kind) ==
    [has_id  |-> kind # "noid", id |-> id,
     read_ok |-> kind # "readfail",
     md_ok   |-> kind # "mdfail",
     del_ok  |-> kind # "delfail"]

MsgId(i) == 100 + i

\* the events of one message that read_message returned: the formatted
\* reply, the plain one if that was refused, then delete_message
RelaySteps(m, relay, fallback) ==
    <<Call("read_message", m.id, TRUE),
      Reply(T_RELAY, "Markdown", m.id, m.md_ok, relay)>>
    \o (IF m.md_ok THEN <<>>
        ELSE <<Reply(T_FALLBACK, "None", m.id, TRUE, fallback)>>)
    \o <<Call("delete_message", m.id, m.del_ok)>>

\* the relay of the messages of the model, computed once
Relays ==
    [k \in 0..2 |-> [relay    |-> RelayFields(FullMessage(k)),
                     fallback |-> FallbackFields(FullMessage(k))]]

\* one pass of the loop body with delete_message called before the reply
RelayMessageDeleteFirst(m) ==
    <<Call("read_message", m.id, TRUE), Call("delete_message", m.id, m.del_ok),
      Reply(T_RELAY, "Markdown", m.id, m.md_ok, Relays[m.id % 3].relay)>>
    \o (IF m.md_ok THEN <<>>
        ELSE <<Reply(T_FALLBACK, "None", m.id, TRUE, Relays[m.id % 3].fallback)>>)

RelayMessage(m) ==
    RelaySteps(m, Relays[m.id % 3].relay, Relays[m.id % 3].fallback)

\* messages with no slice taken
AllMessages(messages) == messages

\* messages[:5]
FirstMessages(messages) ==
    SubSeq(messages, 1, Min({READ_LIMIT, Len(messages)}))

\* for msg in msgs: [trace, raised]
RECURSIVE ProcessMessages(_, _, _)
ProcessMessages(msgs, i, trace) ==
    CASE i > Len(msgs) -> [trace |-> trace, raised |-> FALSE]
      \* msg["id"] raised KeyError
      [] i <= Len(msgs) /\ ~msgs[i].has_id -> [trace |-> trace, raised |-> TRUE]
      \* read_message returned {}: continue
      [] i <= Len(msgs) /\ msgs[i].has_id /\ ~msgs[i].read_ok ->
            ProcessMessages(msgs, i + 1,
                Append(trace, Call("read_message", msgs[i].id, FALSE)))
      [] OTHER ->
            ProcessMessages(msgs, i + 1, trace \o RelayMessage(msgs[i]))

\* listing: what fetch_messages gets from the provider, [ok, entries];
\* ok = FALSE is RequestException, for which fetch_messages returns []
read(S, u, listing) ==
    LET session  == ACTIVE_SESSIONS_get(S, u)
        token    == Subscript(session, K_token)
        fetched  == <<Call("fetch_messages", 0, listing.ok)>>
        messages == IF listing.ok THEN listing.entries ELSE <<>>
        done     == ProcessMessages(FirstMessages(messages), 1, fetched)
    IN  CASE ~Truthy(session) -> Outcome(S, <<Plain(T_NO_INBOX)>>, FALSE)
          \* session["token"] raised TypeError
          [] Truthy(session) /\ ~token.ok -> Outcome(S, <<>>, TRUE)
          [] Truthy(session) /\ token.ok /\ messages = <<>> ->
                Outcome(S, Append(fetched, Plain(T_NO_NEW)), FALSE)
          [] OTHER -> Outcome(S, done.trace, done.raised)

\* ------------------------------------------------------------------------
\* The bot as a state machine: one action per command, and the restart of
\* the process, which empties ACTIVE_SESSIONS
\* ------------------------------------------------------------------------
MaxListing == 6
MaxFaults == 1

FaultKinds == {"noid", "readfail", "mdfail", "delfail"}

\* the listings of up to n messages of which up to f are out of the
\* ordinary, and the listing that fails
ListingsUpTo(n, f) ==
    {[ok |-> FALSE, entries |-> <<>>]}
    \cup UNION {
           UNION {
             {[ok |-> TRUE,
               entries |-> [i \in 1..len |->
                              Entry(MsgId(i), IF i \in F THEN kinds[i] ELSE "ok")]] :
                 kinds \in [F -> FaultKinds]} :
               F \in {G \in SUBSET (1..len) : Cardinality(G) <= f}} :
           len \in 0..n}

SmallListings == ListingsUpTo(1, 1)
Listings == ListingsUpTo(MaxListing, MaxFaults)

NoListing == [ok |-> TRUE, entries |-> <<>>]
NoHandout == [user |-> 0, session |-> Absent, token |-> <<>>]

Invocation(cmd, u, args, listing, out) ==
    [cmd |-> cmd, user |-> u, args |-> args, listing |-> listing,
     trace |-> out.trace, raised |-> out.raised]

\* the replies of an invocation that the transport delivered
Replies(l) ==
    SelectSeq(l.trace, LAMBDA ev : ev.e = "reply" /\ ev.delivered)
Calls(l) == SelectSeq(l.trace, LAMBDA ev : ev.e = "call")
Said(l, txt) == \E k \in 1..Len(l.trace) :
                    /\ l.trace[k].e = "reply" /\ l.trace[k].delivered
                    /\ l.trace[k].text = txt

Harness == /\ rec = Unset /\ tok = Unset /\ dec = Unset
           /\ text = <<>> /\ otp = Unset

Init ==
    /\ store = [u \in Users |-> Absent]
    /\ last = Invocation("boot", 0, <<>>, NoListing, Outcome(store, <<>>, FALSE))
    /\ handed = NoHandout
    /\ codec = CodecTable
    /\ Harness

Step(cmd, u, args, listing, out) ==
    /\ store' = out.store
    /\ last' = Invocation(cmd, u, args, listing, out)
    /\ UNCHANGED <<codec, rec, tok, dec, text, otp>>

Start ==
    \E u \in Users :
        /\ Step("start", u, <<>>, NoListing, start(store, u))
        /\ UNCHANGED handed

\* new_email with the generator in state seed and the provider answering
\* domains, created and jwt
NewEmailWith(u, seed, domains, created, jwt) ==
    LET out == new_email(store, u, seed, domains, created, jwt) IN
    /\ Step("new", u, <<>>, NoListing, out)
    /\ handed' = IF Said(last', T_CREATED)
                 THEN [user |-> u, session |-> out.store[u],
                       token |-> Replies(last')[2].fields.recovery_token]
                 ELSE handed

\* the provider's later answers are drawn only when the handler gets to ask
NewEmail ==
    \E u \in Users, seed \in Seeds, domains \in DomainResponses :
        IF ~domains.ok \/ domains.v = <<>>
        THEN NewEmailWith(u, seed, domains, FALSE, [ok |-> FALSE, v |-> <<>>])
        ELSE \E created \in BOOLEAN :
                IF ~created
                THEN NewEmailWith(u, seed, domains, FALSE, [ok |-> FALSE, v |-> <<>>])
                ELSE \E jwt \in TokenResponses :
                        NewEmailWith(u, seed, domains, TRUE, jwt)

Repair ==
    \E u \in Users, args \in {<<>>} \cup {<<t>> : t \in DOMAIN codec.decoded} :
        /\ Step("repair", u, args, NoListing, repair(store, u, args))
        /\ UNCHANGED handed

ReadFrom(L) ==
    \E u \in Users, listing \in L :
        /\ Step("read", u, <<>>, listing, read(store, u, listing))
        /\ UNCHANGED handed

Read == ReadFrom(SmallListings)

\* the process ends and starts again: the store is lost, the chat is not
Restart ==
    /\ store' = [u \in Users |-> Absent]
    /\ last' = Invocation("boot", 0, <<>>, NoListing, Outcome(store', <<>>, FALSE))
    /\ UNCHANGED <<handed, codec, rec, tok, dec, text, otp>>

Next == Start \/ NewEmail \/ Repair \/ Read \/ Restart

Spec == Init /\ [][Next]_vars

\* read on its own, over the long listings, from a store in which one user
\* holds a session new_email built and the other holds none
ReadInit ==
    /\ store \in {[u \in Users |-> IF u = 123 THEN s ELSE Absent] : s \in NewSessions}
    /\ last = Invocation("boot", 0, <<>>, NoListing, Outcome(store, <<>>, FALSE))
    /\ handed = NoHandout
    /\ codec = CodecTable
    /\ Harness

ReadLong == ReadFrom(Listings)

ReadNext == ReadLong

SpecRead == ReadInit /\ [][ReadNext]_vars

\* ========================================================================
\* Claims
\* ========================================================================

\* C1: for every session record of three string fields (unicode,
\* punctuation, long and empty values included), decoding the record's
\* recovery token gives back a record equal to it.
C1_RoundTrip ==
    dec # Unset => dec.ok /\ dec.v = rec

\* a record whose fields hold a quote and a character beyond the BMP has
\* been encoded and decoded
C1_Witness ==
    /\ dec # Unset
    /\ DictGet(rec, K_email).v = <<34, 128512>>
    /\ tok.v # <<>>

\* the digit runs of 4 to 8 digits between positions i and j whose
\* neighbours satisfy Outside, or are string edges
RunsBetween(s, Outside(_)) ==
    {r \in (1..Len(s)) \X (1..Len(s)) :
        /\ r[2] - r[1] + 1 >= 4 /\ r[2] - r[1] + 1 <= 8
        /\ \A k \in r[1]..r[2] : s[k] >= 48 /\ s[k] <= 57
        /\ (r[1] = 1 \/ Outside(s[r[1] - 1]))
        /\ (r[2] = Len(s) \/ Outside(s[r[2] + 1]))}

LeftmostRun(s, runs) ==
    IF runs = {} THEN PyNone
    ELSE LET r == CHOOSE x \in runs : \A y \in runs : x[1] <= y[1]
         IN  PyStr(SubSeq(s, r[1], r[2]))

NotDigit(c) == ~(c >= 48 /\ c <= 57)
NotWordChar(c) ==
    ~((c >= 48 /\ c <= 57) \/ (c >= 65 /\ c <= 90) \/ (c >= 97 /\ c <= 122)
      \/ c = 95)

\* C6 as stated: detect_otp returns the leftmost run of 4 to 8 digits whose
\* neighbours on both sides are non-digits or string edges, none otherwise.
C6_Original ==
    otp # Unset => otp = LeftmostRun(text, RunsBetween(text, NotDigit))

\* C6 amended: detect_otp returns the leftmost run of 4 to 8 digits whose
\* neighbours on both sides are non-word characters (no digit, letter or
\* underscore) or string edges, none when there is no such run.
C6_WordBounded ==
    otp # Unset => otp = LeftmostRun(text, RunsBetween(text, NotWordChar))

\* detect_otp has returned the second of two runs, the first being too long
C6_Witness ==
    /\ otp = PyStr(<<52, 52, 52, 52>>)
    /\ text = [i \in 1..9 |-> 57] \o <<32>> \o <<52, 52, 52, 52>> \o <<32>>

\* ------------------------------------------------------------------------
\* repair and the Session Store
\* ------------------------------------------------------------------------
\* a token that cannot be decoded, or that decodes to anything other than a
\* record holding all of email, password and token
InvalidToken(t) ==
    LET d == decode_tabulated(t) IN
    \/ ~d.ok
    \/ d.v.t # "dict"
    \/ \E i \in 1..Len(RequiredKeys) : ~DictHas(d.v, RequiredKeys[i])

\* C2: a repair command given an invalid recovery token answers with the
\* rejection reply and leaves the Session Store as it was, for every user.
C2_InvalidTokenLeavesStore ==
    [][(last'.cmd = "repair" /\ last'.args # <<>> /\ InvalidToken(last'.args[1]))
          => (store' = store /\ Said(last', T_INVALID))]_vars

\* a session record: a dict whose email, password and token are non-empty
\* strings
CompleteSession(x) ==
    /\ x.t = "dict"
    /\ \A i \in 1..Len(RequiredKeys) :
          /\ DictHas(x, RequiredKeys[i])
          /\ DictGet(x, RequiredKeys[i]).t = "str"
          /\ DictGet(x, RequiredKeys[i]).v # <<>>

\* C3: in every reachable state every entry of the Session Store is a
\* session record whose email, password and token are present and non-empty.
C3_StoredSessionsComplete ==
    \A u \in Users : store[u] # Absent => CompleteSession(store[u])

\* C4: the recovery token a successful new command sent to user u, given to
\* repair by any user v, in any later process and from any Session Store (the
\* empty one of a fresh process included), makes repair succeed and leaves
\* store[v] equal to the session the new command stored for u.
C4_TokenReproducesSession ==
    /\ (last.cmd = "new" /\ Said(last, T_CREATED)) =>
            /\ handed.user = last.user
            /\ store[last.user] = handed.session
            /\ CompleteSession(handed.session)
    /\ (last.cmd = "repair" /\ handed.session # Absent
            /\ last.args = <<handed.token>>) =>
            /\ Said(last, T_RECOVERED)
            /\ store[last.user] = handed.session

\* after a restart, a user other than the one new_email served has repaired
\* with the token handed out before the restart
C4_Witness ==
    /\ last.cmd = "repair"
    /\ handed.session # Absent
    /\ last.args = <<handed.token>>
    /\ last.user # handed.user
    /\ store[handed.user] = Absent
    /\ store[last.user] = handed.session

\* the record a successful new or repair wrote: the one named in its reply
Written(l) ==
    IF l.cmd = "repair" THEN decode_tabulated(l.args[1]).v
    ELSE CHOOSE x \in NewSessions :
            DictGet(x, K_email).v = Replies(l)[2].fields.email

Succeeded(l) ==
    \/ l.cmd = "new" /\ Said(l, T_CREATED)
    \/ l.cmd = "repair" /\ Said(l, T_RECOVERED)

\* C5: an entry of the Session Store appears or changes only by a successful
\* new or repair of its own user (so the lookup of a user who completed
\* neither is absent), read by a user with no entry answers 'No active inbox'
\* and calls no provider, a successful new or repair leaves exactly the
\* record it wrote, and no command changes the entry of another user.
C5_StoreSemantics ==
    [][last'.cmd # "boot" =>
          /\ \A b \in Users \ {last'.user} : store'[b] = store[b]
          /\ store'[last'.user] # store[last'.user] => Succeeded(last')
          /\ Succeeded(last') => store'[last'.user] = Written(last')
          /\ (last'.cmd = "read" /\ store[last'.user] = Absent) =>
                last'.trace = <<Plain(T_NO_INBOX)>>]_vars

\* ------------------------------------------------------------------------
\* read
\* ------------------------------------------------------------------------
CallsOf(l, op) == {k \in 1..Len(l.trace) : l.trace[k].e = "call" /\ l.trace[k].op = op}
RepliesAbout(l, id) ==
    {k \in 1..Len(l.trace) :
        l.trace[k].e = "reply" /\ l.trace[k].delivered /\ l.trace[k].id = id}

\* C7: one read with an active session reads at most 5 messages, all among
\* the first five of the listing; every delete_message comes after a
\* delivered reply about the same message, which comes after its read_message
\* succeeded; a message whose read_message failed is not deleted; messages
\* beyond the fifth are neither read nor deleted.
C7_ReadThenReplyThenDelete ==
    (last.cmd = "read" /\ store[last.user] # Absent) =>
        LET tr      == last.trace
            reads   == CallsOf(last, "read_message")
            deletes == CallsOf(last, "delete_message")
            first   == {last.listing.entries[i].id :
                            i \in 1..Min({5, Len(last.listing.entries)})}
        IN  /\ Cardinality(reads) <= 5
            /\ \A k \in reads \cup deletes : tr[k].id \in first
            /\ \A k \in reads : \A j \in reads : tr[j].id = tr[k].id => j = k
            /\ \A d \in deletes :
                  \E r \in reads : \E a \in RepliesAbout(last, tr[d].id) :
                      /\ r < a /\ a < d
                      /\ tr[r].id = tr[d].id /\ tr[r].ok

\* a read over a listing of more than five messages, one of which could not
\* be read, has relayed and deleted four of them
C7_Witness ==
    /\ last.cmd = "read"
    /\ store[last.user] # Absent
    /\ Len(last.listing.entries) > 5
    /\ \E k \in CallsOf(last, "read_message") : ~last.trace[k].ok
    /\ Cardinality(CallsOf(last, "delete_message")) = 4

\* C8: when the formatted reply about a message is refused, the next event
\* is one plain reply about the same message that carries its subject and
\* body, and only then is the message deleted.
C8_FallbackCarriesContent ==
    last.cmd = "read" =>
        \A k \in 1..Len(last.trace) :
            (last.trace[k].e = "reply" /\ ~last.trace[k].delivered) =>
                /\ k + 2 <= Len(last.trace)
                /\ last.trace[k + 1].e = "reply"
                /\ last.trace[k + 1].delivered
                /\ last.trace[k + 1].parse_mode = "None"
                /\ last.trace[k + 1].id = last.trace[k].id
                /\ {"subject", "body"} \subseteq DOMAIN last.trace[k + 1].fields
                /\ last.trace[k + 1].fields.subject = last.trace[k].fields.subject
                /\ last.trace[k + 1].fields.body = last.trace[k].fields.body
                /\ last.trace[k + 2].e = "call"
                /\ last.trace[k + 2].op = "delete_message"

\* ------------------------------------------------------------------------
\* Failures
\* ------------------------------------------------------------------------
\* the replies of new and read when the provider works
WorkingReplies ==
    {T_CREATING, T_CREATED, T_NO_DOMAINS, T_NO_NEW, T_RELAY, T_FALLBACK}

\* C9: in a new or read command, a provider call that fails is followed by
\* a delivered reply that is none of the replies of a working provider, and
\* the same call is not made again in that command.
C9_ProviderFailureReported ==
    last.cmd \in {"new", "read"} =>
        \A k \in 1..Len(last.trace) :
            (last.trace[k].e = "call" /\ ~last.trace[k].ok) =>
                /\ \E j \in (k + 1)..Len(last.trace) :
                      /\ last.trace[j].e = "reply" /\ last.trace[j].delivered
                      /\ last.trace[j].text \notin WorkingReplies
                /\ \A j \in (k + 1)..Len(last.trace) :
                      ~(/\ last.trace[j].e = "call"
                        /\ last.trace[j].op = last.trace[k].op
                        /\ last.trace[j].id = last.trace[k].id)

\* C10: no exception escapes a command handler, and every invocation sends
\* the user a message.
C10_HandlersAlwaysAnswer ==
    last.cmd \in {"start", "new", "repair", "read"} =>
        /\ ~last.raised
        /\ Replies(last) # <<>>

====
